---- MODULE Spec2Model ----
(***************************************************************************)
(* A model of the embedding cache and top-k retrieval of rag-basic:        *)
(* VectorStore (src/src/vector_store.py), RAGChat (src/src/rag_pipeline.py)*)
(* and the reset entry point (src/reset_vector_store.py).                  *)
(*                                                                         *)
(* File names are tuples of one-character strings, so that the suffix test *)
(* and os.path.splitext are computed character by character.  The cache    *)
(* directory is a flag plus a function from cache-file paths to pickled    *)
(* contents.  Every method is one action; its effect is computed by an     *)
(* operator on the "world" [dir, files] that follows the method's code.    *)
(***************************************************************************)
EXTENDS Integers, Sequences, FiniteSets, TLC

VARIABLES
    cacheDirExists,  \* os.path.exists(self.cache_dir)
    files,           \* cache-file path -> pickled content, for the files in cache_dir
    folder,          \* the listing of the PDF folder (os.listdir order), or NoFolder
    pool,            \* RAGChat.chunks / RAGChat.embeddings
    last,            \* the call that ran last, its arguments, result and effects
    prev,            \* the call before it, kept when the two calls are related
    before,          \* the result of the fetch_all that ran just before a reset
    procs,           \* process -> where it stands inside fetch, its locals and result
    saves            \* the processes in the order their pickle.dump completed

vars == <<cacheDirExists, files, folder, pool, last, prev, before, procs, saves>>

-----------------------------------------------------------------------------
(* Bounds of the model.                                                    *)

MaxChunks == 2   \* longest chunk list passed to create / fetch
MaxFiles == 2    \* most files in the PDF folder
MaxPool == 3     \* largest pool handed to retrieve_top_k
MaxK == 4        \* largest k / top_k

-----------------------------------------------------------------------------
(* Strings.                                                                *)

RECURSIVE SeqsUpTo(_, _)
SeqsUpTo(S, n) ==
    IF n = 0 THEN {<<>>}
    ELSE LET shorter == SeqsUpTo(S, n - 1)
         IN  shorter \cup {Append(s, x) : s \in {t \in shorter : Len(t) = n - 1}, x \in S}

\* str.lower() on the characters that occur in the modelled file names
LowerChar(c) ==
    CASE c = "P" -> "p"
      [] c = "D" -> "d"
      [] c = "F" -> "f"
      [] c = "A" -> "a"
      [] OTHER -> c

Lower(s) == [i \in 1..Len(s) |-> LowerChar(s[i])]

EndsWith(s, suffix) ==
    /\ Len(s) >= Len(suffix)
    /\ SubSeq(s, Len(s) - Len(suffix) + 1, Len(s)) = suffix

\* str.rfind, 1-based, 0 when the character does not occur
RFind(s, c) ==
    LET hits == {i \in 1..Len(s) : s[i] = c}
    IN  IF hits = {} THEN 0 ELSE CHOOSE i \in hits : \A j \in hits : j <= i

\* os.path.splitext(p)[0]: cut at the last dot, unless that dot is before the
\* last separator or only dots precede it in the file name
SplitExtRoot(p) ==
    LET sepIndex == RFind(p, "/")
        dotIndex == RFind(p, ".")
    IN  IF /\ dotIndex > sepIndex
           /\ \E i \in (sepIndex + 1)..(dotIndex - 1) : p[i] # "."
        THEN SubSeq(p, 1, dotIndex - 1)
        ELSE p

CacheDir == <<"data/cache">>

PklSuffix == <<".", "p", "k", "l">>

PdfSuffix == <<".", "p", "d", "f">>

\* os.path.join(a, b) for a relative b
PathJoin(a, b) == a \o <<"/">> \o b

\* a cache path that keeps the extension of the document
GetCachePathKeepExt(pdf_name) == PathJoin(CacheDir, pdf_name \o PklSuffix)

get_cache_path(pdf_name) == PathJoin(CacheDir, SplitExtRoot(pdf_name) \o PklSuffix)

\* the suffix test without lower()
IsPdfCaseSensitive(file) == EndsWith(file, PdfSuffix)

\* file.lower().endswith(".pdf")
IsPdf(file) == EndsWith(Lower(file), PdfSuffix)

-----------------------------------------------------------------------------
(* The embedding model and the pickled cache file.                         *)

\* SentenceTransformer("all-MiniLM-L6-v2").encode of one text: a fixed vector
\* per text (the model is deterministic), with two components instead of 384
Embed(text) ==
    CASE text = "c1" -> <<1, 0>>
      [] text = "c2" -> <<0, 1>>
      [] text = "c3" -> <<1, 1>>
      [] text = "c4" -> <<0, 0>>
      [] text = "c5" -> <<-1, 0>>
      [] text = "q1" -> <<1, 0>>
      [] text = "q2" -> <<1, 2>>
      [] OTHER -> <<2, 1>>

\* an encode that gives one row for the whole list, that of its first chunk
EncodeOneRow(chunks) == IF chunks = <<>> THEN <<>> ELSE <<Embed(chunks[1])>>

\* model.encode(chunks, convert_to_tensor=True): one row per chunk, in order
Encode(chunks) == [i \in 1..Len(chunks) |-> Embed(chunks[i])]

RECURSIVE Flatten(_)
Flatten(rows) == IF rows = <<>> THEN <<>> ELSE Head(rows) \o Flatten(Tail(rows))

TensorShape(rows) == <<Len(rows), IF rows = <<>> THEN 0 ELSE Len(rows[1])>>

\* a dump that leaves the embeddings out
PickleDumpChunksOnly(chunks, embeddings) ==
    [strs |-> chunks, shape |-> <<0, 0>>, data |-> <<>>]

\* pickle.dump((chunks, embeddings), f): the list of strings, and the tensor
\* as its shape and its values in row-major order
PickleDump(chunks, embeddings) ==
    [strs |-> chunks, shape |-> TensorShape(embeddings), data |-> Flatten(embeddings)]

\* pickle.load(f): the pair (chunks, embeddings) rebuilt from the file
PickleLoad(content) ==
    [chunks |-> content.strs,
     embeddings |-> [i \in 1..content.shape[1] |->
                       [j \in 1..content.shape[2] |->
                          content.data[(i - 1) * content.shape[2] + j]]]]

-----------------------------------------------------------------------------
(* The methods of VectorStore as operators on the world w = [dir, files].  *)
(* Each returns the world it leaves, how it ended (kind), what it returned *)
(* and what it did: calls of model.encode, calls of load, files written.   *)

NoFiles == [p \in {} |-> 0]

World(dir, fs) == [dir |-> dir, files |-> fs]

Out(w, kind, chunks, embeddings, encodes, loads, written) ==
    [w |-> w, kind |-> kind, chunks |-> chunks, embeddings |-> embeddings,
     encodes |-> encodes, loads |-> loads, written |-> written]

\* shutil.rmtree(self.cache_dir)
Rmtree(w) == World(FALSE, NoFiles)

\* os.makedirs(self.cache_dir, exist_ok=True)
Makedirs(w) == World(TRUE, w.files)

\* a clear that only makes sure the directory exists
ClearKeepFiles(w) == Makedirs(w)

\* if os.path.exists(cache_dir): rmtree; then makedirs
clear(w) == Makedirs(IF w.dir THEN Rmtree(w) ELSE w)

\* open(cache_file, "wb") fails when the directory is missing
create(w, pdf_name, chunks) ==
    LET embeddings == Encode(chunks)
        cache_file == get_cache_path(pdf_name)
    IN  IF ~w.dir
        THEN Out(w, "FileNotFoundError", <<>>, <<>>, 1, 0, {})
        ELSE Out(World(w.dir, (cache_file :> PickleDump(chunks, embeddings)) @@ w.files),
                 "ok", <<>>, <<>>, 1, 0, {cache_file})

load(w, pdf_name) ==
    LET cache_file == get_cache_path(pdf_name)
    IN  IF cache_file \notin DOMAIN w.files
        THEN Out(w, "FileNotFoundError", <<>>, <<>>, 0, 1, {})
        ELSE LET data == PickleLoad(w.files[cache_file])
             IN  Out(w, "ok", data.chunks, data.embeddings, 0, 1, {})

\* a fetch that never tries the cache first
FetchAlwaysCreate(w, pdf_name, chunks) ==
    LET made == create(w, pdf_name, chunks)
        again == load(made.w, pdf_name)
    IN  IF made.kind # "ok"
        THEN made
        ELSE Out(again.w, again.kind, again.chunks, again.embeddings,
                 made.encodes, again.loads, made.written)

\* a fetch that returns what it computed instead of re-reading it
FetchNoReload(w, pdf_name, chunks) ==
    LET first == load(w, pdf_name)
    IN  IF first.kind = "ok"
        THEN first
        ELSE Out(w, "ok", chunks, Encode(chunks), 1, 1, {})

\* a fetch that computes and saves again when the entry it finds holds other
\* chunks than the ones supplied
FetchRecreateOnChange(w, pdf_name, chunks) ==
    LET first == load(w, pdf_name)
    IN  IF first.kind = "ok" /\ first.chunks = chunks
        THEN first
        ELSE LET made == create(w, pdf_name, chunks)
                 again == load(made.w, pdf_name)
             IN  IF made.kind # "ok"
                 THEN Out(made.w, made.kind, <<>>, <<>>,
                          made.encodes, first.loads, made.written)
                 ELSE Out(again.w, again.kind, again.chunks, again.embeddings,
                          made.encodes, first.loads + again.loads, made.written)

fetch(w, pdf_name, chunks) ==
    LET first == load(w, pdf_name)
    IN  IF first.kind = "ok"
        THEN first
        ELSE LET made == create(w, pdf_name, chunks)
                 again == load(made.w, pdf_name)
             IN  IF made.kind # "ok"
                 THEN Out(made.w, made.kind, <<>>, <<>>,
                          made.encodes, first.loads, made.written)
                 ELSE Out(again.w, again.kind, again.chunks, again.embeddings,
                          made.encodes, first.loads + again.loads, made.written)

\* load_pdf + chunk_text_simple (src/pdf_loader.py): the chunks of each document
\* of the modelled corpus; a.pdf and a.PDF differ only in the extension
DocChunks(file) ==
    CASE file = <<"a", ".", "p", "d", "f">> -> <<"c1", "c2">>
      [] file = <<"a", ".", "P", "D", "F">> -> <<"c2">>
      [] file = <<"b", ".", "p", "d", "f">> -> <<"c3">>
      [] file = <<"e", ".", "p", "d", "f">> -> <<>>
      [] OTHER -> <<"c1">>

RECURSIVE Concat(_)
Concat(seqs) == IF seqs = <<>> THEN <<>> ELSE Head(seqs) \o Concat(Tail(seqs))

\* torch.cat(all_embeddings, dim=0): the rows of the blocks, in order
Cat(tensors) == Concat(tensors)

\* all_chunks.extend(chunks); all_embeddings.append(embeddings), and the
\* bookkeeping of what the call of fetch did
Accumulate(acc, got) ==
    [all_chunks |-> acc.all_chunks \o got.chunks,
     all_embeddings |-> Append(acc.all_embeddings, got.embeddings),
     parts |-> Append(acc.parts, got.chunks),
     encodes |-> acc.encodes + got.encodes,
     loads |-> acc.loads + got.loads,
     written |-> acc.written \cup got.written]

\* the loop of fetch_all over os.listdir(pdf_folder), from position i on;
\* acc carries all_chunks, all_embeddings and what the calls did so far.
\* FetchAllNext continues after the fetch of file i ended as got
RECURSIVE FetchAllLoop(_, _, _, _)
RECURSIVE FetchAllNext(_, _, _, _)
FetchAllLoop(w, listing, i, acc) ==
    IF i > Len(listing)
    THEN [w |-> w, acc |-> acc, kind |-> "ok"]
    ELSE IF ~IsPdf(listing[i])
    THEN FetchAllLoop(w, listing, i + 1, acc)
    ELSE FetchAllNext(listing, i, acc, fetch(w, listing[i], DocChunks(listing[i])))

FetchAllNext(listing, i, acc, got) ==
    IF got.kind # "ok"
    THEN [w |-> got.w, acc |-> Accumulate(acc, got), kind |-> got.kind]
    ELSE FetchAllLoop(got.w, listing, i + 1, Accumulate(acc, got))

EmptyAcc ==
    [all_chunks |-> <<>>, all_embeddings |-> <<>>, parts |-> <<>>,
     encodes |-> 0, loads |-> 0, written |-> {}]

\* the result of fetch_all / reset: an Out plus the chunks each document gave
OutAll(w, kind, chunks, embeddings, acc) ==
    [w |-> w, kind |-> kind, chunks |-> chunks, embeddings |-> embeddings,
     encodes |-> acc.encodes, loads |-> acc.loads, written |-> acc.written,
     parts |-> acc.parts]

\* a fetch_all without the check for an empty pool
FetchAllNoCheck(w, pdf_folder) ==
    IF ~pdf_folder.exists
    THEN OutAll(w, "FileNotFoundError", <<>>, <<>>, EmptyAcc)
    ELSE LET done == FetchAllLoop(w, pdf_folder.listing, 1, EmptyAcc)
         IN  IF done.kind # "ok"
             THEN OutAll(done.w, done.kind, <<>>, <<>>, done.acc)
             ELSE OutAll(done.w, "ok", done.acc.all_chunks,
                         Cat(done.acc.all_embeddings), done.acc)

\* os.listdir raises FileNotFoundError when the folder does not exist
fetch_all(w, pdf_folder) ==
    IF ~pdf_folder.exists
    THEN OutAll(w, "FileNotFoundError", <<>>, <<>>, EmptyAcc)
    ELSE LET done == FetchAllLoop(w, pdf_folder.listing, 1, EmptyAcc)
         IN  IF done.kind # "ok"
             THEN OutAll(done.w, done.kind, <<>>, <<>>, done.acc)
             ELSE IF done.acc.all_chunks = <<>>
             THEN OutAll(done.w, "ValueError", <<>>, <<>>, done.acc)
             ELSE OutAll(done.w, "ok", done.acc.all_chunks,
                         Cat(done.acc.all_embeddings), done.acc)

\* the loop of reset over os.listdir(pdf_folder): create only, no load
RECURSIVE ResetLoop(_, _, _, _)
ResetLoop(w, listing, i, acc) ==
    IF i > Len(listing)
    THEN [w |-> w, acc |-> acc, kind |-> "ok"]
    ELSE LET file == listing[i]
         IN  IF ~IsPdf(file)
             THEN ResetLoop(w, listing, i + 1, acc)
             ELSE LET made == create(w, file, DocChunks(file))
                      acc2 == [acc EXCEPT !.encodes = @ + made.encodes,
                                          !.loads = @ + made.loads,
                                          !.written = @ \cup made.written]
                  IN  IF made.kind # "ok"
                      THEN [w |-> made.w, acc |-> acc2, kind |-> made.kind]
                      ELSE ResetLoop(made.w, listing, i + 1, acc2)

\* a reset loop that chunks the first file of the folder for every document
RECURSIVE ResetLoopFirstChunks(_, _, _, _)
ResetLoopFirstChunks(w, listing, i, acc) ==
    IF i > Len(listing)
    THEN [w |-> w, acc |-> acc, kind |-> "ok"]
    ELSE IF ~IsPdf(listing[i])
    THEN ResetLoopFirstChunks(w, listing, i + 1, acc)
    ELSE LET made == create(w, listing[i], DocChunks(listing[1]))
         IN  ResetLoopFirstChunks(made.w, listing, i + 1,
                                  [acc EXCEPT !.encodes = @ + made.encodes,
                                              !.written = @ \cup made.written])

ResetFirstChunks(w, pdf_folder) ==
    IF ~pdf_folder.exists
    THEN OutAll(clear(w), "FileNotFoundError", <<>>, <<>>, EmptyAcc)
    ELSE LET done == ResetLoopFirstChunks(clear(w), pdf_folder.listing, 1, EmptyAcc)
         IN  OutAll(done.w, done.kind, <<>>, <<>>, done.acc)

\* a reset that rebuilds without clearing first
ResetNoClear(w, pdf_folder) ==
    IF ~pdf_folder.exists
    THEN OutAll(w, "FileNotFoundError", <<>>, <<>>, EmptyAcc)
    ELSE LET done == ResetLoop(w, pdf_folder.listing, 1, EmptyAcc)
         IN  OutAll(done.w, done.kind, <<>>, <<>>, done.acc)

reset(w, pdf_folder) ==
    LET emptied == clear(w)
    IN  IF ~pdf_folder.exists
        THEN OutAll(emptied, "FileNotFoundError", <<>>, <<>>, EmptyAcc)
        ELSE LET done == ResetLoop(emptied, pdf_folder.listing, 1, EmptyAcc)
             IN  OutAll(done.w, done.kind, <<>>, <<>>, done.acc)

-----------------------------------------------------------------------------
(* Top-k retrieval.                                                        *)

RECURSIVE Dot(_, _)
Dot(a, b) == IF a = <<>> THEN 0 ELSE Head(a) * Head(b) + Dot(Tail(a), Tail(b))

Sgn(x) == IF x > 0 THEN 1 ELSE IF x < 0 THEN -1 ELSE 0

\* util.cos_sim(a, b) for one pair of vectors: both are normalised first, a
\* vector of norm zero stays zero and scores 0.  The score is kept exactly, as
\* the signed square of the cosine num/den, which orders scores as the cosine does
cos_sim(a, b) ==
    LET d == Dot(a, b)
        na == Dot(a, a)
        nb == Dot(b, b)
    IN  IF na = 0 \/ nb = 0
        THEN [num |-> 0, den |-> 1]
        ELSE [num |-> Sgn(d) * d * d, den |-> na * nb]

ScoreLess(x, y) == x.num * y.den < y.num * x.den

Scores(query_embedding, embeddings) ==
    [i \in 1..Len(embeddings) |-> cos_sim(query_embedding, embeddings[i])]

\* the positions among `among` whose score no other position of `among` beats
ArgMax(scores, among) ==
    {i \in among : \A j \in among : ~ScoreLess(scores[i], scores[j])}

\* Tensor.topk(k)[1] for 0 <= k <= size: the largest first, then the largest
\* of the rest, and so on; which of several equal scores comes first is not
\* defined, so every order of them is a possible result
RECURSIVE TopKFrom(_, _, _)
TopKFrom(scores, among, k) ==
    IF k = 0 THEN {<<>>}
    ELSE UNION {{<<i>> \o rest : rest \in TopKFrom(scores, among \ {i}, k - 1)} :
                   i \in ArgMax(scores, among)}

OutTopK(kind, idx, chunks) == [kind |-> kind, idx |-> idx, chunks |-> chunks]

\* a retrieval that returns the top k in pool order instead of score order
RetrieveUnsorted(chunks, embeddings, query, k) ==
    LET scores == Scores(Embed(query), embeddings)
        Sorted(s) == \A m, n \in 1..Len(s) : m < n => s[m] < s[n]
    IN  IF k > Len(scores)
        THEN {OutTopK("RuntimeError", <<>>, <<>>)}
        ELSE {OutTopK("ok", idx, [n \in 1..Len(idx) |-> chunks[idx[n]]]) :
                idx \in {p \in [1..k -> 1..Len(scores)] :
                            /\ Sorted(p)
                            /\ \E t \in TopKFrom(scores, 1..Len(scores), k) :
                                  {t[n] : n \in 1..k} = {p[n] : n \in 1..k}}}

\* the possible outcomes of retrieve_top_k; topk raises RuntimeError when k
\* exceeds the number of scores
retrieve_top_k(chunks, embeddings, query, k) ==
    LET query_embedding == Embed(query)
        scores == Scores(query_embedding, embeddings)
    IN  IF k > Len(scores)
        THEN {OutTopK("RuntimeError", <<>>, <<>>)}
        ELSE {OutTopK("ok", top_indices,
                      [n \in 1..Len(top_indices) |-> chunks[top_indices[n]]]) :
                top_indices \in TopKFrom(scores, 1..Len(scores), k)}

\* "\n\n".join(top_chunks), as the pieces of the context string
RECURSIVE JoinBlankLine(_)
JoinBlankLine(top_chunks) ==
    IF Len(top_chunks) <= 1 THEN top_chunks
    ELSE <<Head(top_chunks), "\n\n">> \o JoinBlankLine(Tail(top_chunks))

-----------------------------------------------------------------------------
(* The record of a call, and the inputs of the calls.                      *)

NoCall ==
    [op |-> "none", name |-> <<>>, chunks |-> <<>>, kind |-> "none",
     outChunks |-> <<>>, outEmb |-> <<>>, encodes |-> 0, loads |-> 0,
     written |-> {}, had |-> {}, parts |-> <<>>, k |-> 0, query |-> "", idx |-> <<>>]

\* the record of a cache call op(name, chunks) that ended as r; had is the set
\* of cache files that existed when it was called
Call(op, name, chunks, r, had) ==
    [NoCall EXCEPT !.op = op, !.name = name, !.chunks = chunks, !.kind = r.kind,
                   !.outChunks = r.chunks, !.outEmb = r.embeddings,
                   !.encodes = r.encodes, !.loads = r.loads,
                   !.written = r.written, !.had = had]

\* prev keeps the last call only when the next call is one a property relates
\* to it: load after create of the same cache file, fetch after the same
\* fetch, create or load after clear, fetch_all after reset
Keep(op, name, chunks) ==
    IF \/ /\ last.op = "create" /\ op = "load"
          /\ get_cache_path(last.name) = get_cache_path(name)
       \/ /\ last.op = "fetch" /\ op = "fetch"
          /\ get_cache_path(last.name) = get_cache_path(name)
          /\ last.chunks = chunks
       \/ /\ last.op = "clear" /\ op \in {"create", "load"}
       \/ /\ last.op = "reset" /\ op = "fetch_all"
    THEN last
    ELSE NoCall

NoBefore == [set |-> FALSE, kind |-> "none", chunks |-> <<>>, parts |-> <<>>]

NoPool == [chunks |-> <<>>, embeddings |-> <<>>]

NoFolder == [exists |-> FALSE, listing |-> <<>>]

APdf == <<"a", ".", "p", "d", "f">>

AUpperPdf == <<"a", ".", "P", "D", "F">>

BPdf == <<"b", ".", "p", "d", "f">>

EPdf == <<"e", ".", "p", "d", "f">>

NTxt == <<"n", ".", "t", "x", "t">>

\* the file names a folder may hold
Names == {APdf, AUpperPdf, BPdf, EPdf, NTxt}

\* the names create, load and fetch are called with directly
StoreNames == {APdf, AUpperPdf, BPdf}

Chunks == {"c1", "c2"}

\* the calls create(pdf_name, chunks) and fetch(pdf_name, chunks): any chunk
\* list for the two names that share the cache file a.pkl, one chunk list for
\* b.pdf, whose cache file the calls on a.pkl must leave alone
StoreInputs ==
    {<<n, c>> : n \in {APdf, AUpperPdf}, c \in SeqsUpTo(Chunks, MaxChunks)}
        \cup {<<BPdf, <<"c2">>>>}


Distinct(s) == \A i, j \in 1..Len(s) : i # j => s[i] # s[j]

Listings == {s \in SeqsUpTo(Names, MaxFiles) : Distinct(s)}

Folders == {NoFolder} \cup {[exists |-> TRUE, listing |-> l] : l \in Listings}

-----------------------------------------------------------------------------
(* The calls as actions.                                                   *)

Here == World(cacheDirExists, files)

Clear ==
    LET w == clear(Here)
    IN  /\ cacheDirExists' = w.dir
        /\ files' = w.files
        /\ last' = [NoCall EXCEPT !.op = "clear", !.kind = "ok", !.had = DOMAIN files]
        /\ prev' = NoCall
        /\ before' = NoBefore
        /\ UNCHANGED <<folder, pool, procs, saves>>

Create(pdf_name, chunks) ==
    LET r == create(Here, pdf_name, chunks)
    IN  /\ cacheDirExists' = r.w.dir
        /\ files' = r.w.files
        /\ last' = Call("create", pdf_name, chunks, r, DOMAIN files)
        /\ prev' = Keep("create", pdf_name, chunks)
        /\ before' = NoBefore
        /\ UNCHANGED <<folder, pool, procs, saves>>

Load(pdf_name) ==
    LET r == load(Here, pdf_name)
    IN  /\ cacheDirExists' = r.w.dir
        /\ files' = r.w.files
        /\ last' = Call("load", pdf_name, <<>>, r, DOMAIN files)
        /\ prev' = Keep("load", pdf_name, <<>>)
        /\ before' = NoBefore
        /\ UNCHANGED <<folder, pool, procs, saves>>

Fetch(pdf_name, chunks) ==
    LET r == fetch(Here, pdf_name, chunks)
    IN  /\ cacheDirExists' = r.w.dir
        /\ files' = r.w.files
        /\ last' = Call("fetch", pdf_name, chunks, r, DOMAIN files)
        /\ prev' = Keep("fetch", pdf_name, chunks)
        /\ before' = NoBefore
        /\ UNCHANGED <<folder, pool, procs, saves>>

FetchAll ==
    LET r == fetch_all(Here, folder)
    IN  /\ cacheDirExists' = r.w.dir
        /\ files' = r.w.files
        /\ last' = [Call("fetch_all", <<>>, <<>>, r, DOMAIN files) EXCEPT !.parts = r.parts]
        /\ prev' = Keep("fetch_all", <<>>, <<>>)
        /\ before' = IF last.op = "reset" THEN before ELSE NoBefore
        /\ UNCHANGED <<folder, pool, procs, saves>>

Reset ==
    LET r == reset(Here, folder)
    IN  /\ cacheDirExists' = r.w.dir
        /\ files' = r.w.files
        /\ last' = Call("reset", <<>>, <<>>, r, DOMAIN files)
        /\ prev' = NoCall
        /\ before' = IF last.op = "fetch_all"
                      THEN [set |-> TRUE, kind |-> last.kind,
                            chunks |-> last.outChunks, parts |-> last.parts]
                      ELSE NoBefore
        /\ UNCHANGED <<folder, pool, procs, saves>>

RetrieveTopK(query, k) ==
    \E r \in retrieve_top_k(pool.chunks, pool.embeddings, query, k) :
        /\ last' = [NoCall EXCEPT !.op = "retrieve_top_k", !.kind = r.kind,
                                  !.outChunks = r.chunks, !.idx = r.idx,
                                  !.encodes = 1, !.query = query, !.k = k,
                                  !.had = DOMAIN files]
        /\ prev' = NoCall
        /\ before' = NoBefore
        /\ UNCHANGED <<cacheDirExists, files, folder, pool, procs, saves>>

\* RAGChat.ask: the retrieval, the context, then query_openrouter, which
\* answers or fails; the answer is recorded as the context it was given
Ask(question, top_k) ==
    \E r \in retrieve_top_k(pool.chunks, pool.embeddings, question, top_k) :
      \E answered \in BOOLEAN :
        /\ r.kind = "ok" \/ answered
        /\ last' = [NoCall EXCEPT !.op = "ask",
                                  !.kind = IF r.kind # "ok" THEN r.kind
                                           ELSE IF answered THEN "ok"
                                           ELSE "AnswerServiceError",
                                  !.outChunks = JoinBlankLine(r.chunks), !.idx = r.idx,
                                  !.encodes = 1, !.query = question, !.k = top_k,
                                  !.had = DOMAIN files]
        /\ prev' = NoCall
        /\ before' = NoBefore
        /\ UNCHANGED <<cacheDirExists, files, folder, pool, procs, saves>>

\* RAGChat.__init__: a VectorStore on the cache directory, then fetch_all over
\* the folder; the pool is held when fetch_all returns, and no RAGChat comes
\* to be when it raises
NewChat ==
    LET r == fetch_all(Makedirs(Here), folder)
    IN  /\ cacheDirExists' = r.w.dir
        /\ files' = r.w.files
        /\ pool' = IF r.kind = "ok"
                    THEN [chunks |-> r.chunks, embeddings |-> r.embeddings]
                    ELSE pool
        /\ last' = [Call("fetch_all", <<>>, <<>>, r, DOMAIN files) EXCEPT !.parts = r.parts]
        /\ prev' = Keep("fetch_all", <<>>, <<>>)
        /\ before' = IF last.op = "reset" THEN before ELSE NoBefore
        /\ UNCHANGED <<folder, procs, saves>>

-----------------------------------------------------------------------------
(* fetch run by two processes on one cache directory, step by step.  A     *)
(* step is one file-system call of fetch, load or create: os.path.exists,  *)
(* open(cache_file, "rb") and every read of pickle.load; the encode;       *)
(* open(cache_file, "wb"), which empties the file, and the write of        *)
(* pickle.dump.                                                            *)
(*                                                                         *)
(* The entries here are no larger than the buffer of the file object: a    *)
(* few chunks of short text with their embeddings.  pickle.dump puts such  *)
(* an entry into the buffer and the file gets it in one write, made at     *)
(* offset 0 when the with block closes the file; pickle.load gets it in    *)
(* one read.  A cache file is the sequence of the entries it holds: none   *)
(* after open(cache_file, "wb"), one after the write.  (Bytes that a       *)
(* longer entry written earlier leaves behind the new one are not part of  *)
(* it: pickle.load stops at the end of the first pickle.)                  *)

Procs == {"p1", "p2"}

Idle == [pc |-> "idle", phase |-> "none", name |-> <<>>, chunks |-> <<>>,
         embeddings |-> <<>>, reads |-> 0,
         kind |-> "none", outChunks |-> <<>>, outEmb |-> <<>>]

\* a process that has called fetch(pdf_name, chunks)
Called(pdf_name, chunks) ==
    [Idle EXCEPT !.pc = "exists", !.phase = "try", !.name = pdf_name, !.chunks = chunks]

\* the content of a file after open(cache_file, "wb")
Truncated == <<>>

Raised(kind) == [kind |-> kind, chunks |-> <<>>, embeddings |-> <<>>]

Returned(proc, r) ==
    [proc EXCEPT !.pc = "done", !.kind = r.kind,
                 !.outChunks = r.chunks, !.outEmb = r.embeddings]

\* load: if not os.path.exists(cache_file): raise FileNotFoundError, which
\* the first load of fetch answers with create and the second lets through
RaceExists(p) ==
    /\ procs[p].pc = "exists"
    /\ procs' = [procs EXCEPT ![p] =
          IF get_cache_path(procs[p].name) \in DOMAIN files
          THEN [@ EXCEPT !.pc = "open_rb"]
          ELSE IF procs[p].phase = "try"
          THEN [@ EXCEPT !.pc = "encode"]
          ELSE Returned(@, Raised("FileNotFoundError"))]
    /\ UNCHANGED <<cacheDirExists, files, folder, pool, last, prev, before, saves>>

\* load: with open(cache_file, "rb") as f
RaceOpenRead(p) ==
    /\ procs[p].pc = "open_rb"
    /\ procs' = [procs EXCEPT ![p] = [@ EXCEPT !.pc = "read", !.reads = 0]]
    /\ UNCHANGED <<cacheDirExists, files, folder, pool, last, prev, before, saves>>

\* load: pickle.load(f), one read of the file as it is now.  A read that
\* finds the entry gives all of it and the load returns the pair.  The
\* unpickler looks ahead first (f.peek) and then asks for what it needs
\* (f.read): when the first read finds the file empty it reads once more,
\* and a second read that finds it empty ends the load with EOFError.
\* No except clause of load or fetch takes that error.
RaceRead(p) ==
    /\ procs[p].pc = "read"
    /\ LET content == files[get_cache_path(procs[p].name)]
       IN  procs' = [procs EXCEPT ![p] =
              IF content # Truncated
              THEN LET data == PickleLoad(content[1])
                   IN  Returned([@ EXCEPT !.reads = @ + 1],
                                [kind |-> "ok", chunks |-> data.chunks,
                                 embeddings |-> data.embeddings])
              ELSE IF procs[p].reads = 0
              THEN [@ EXCEPT !.reads = 1]
              ELSE Returned([@ EXCEPT !.reads = @ + 1], Raised("EOFError"))]
    /\ UNCHANGED <<cacheDirExists, files, folder, pool, last, prev, before, saves>>

\* create: embeddings = self.model.encode(chunks, ...)
RaceEncode(p) ==
    /\ procs[p].pc = "encode"
    /\ procs' = [procs EXCEPT ![p] = [@ EXCEPT !.pc = "open_wb",
                                               !.embeddings = Encode(procs[p].chunks)]]
    /\ UNCHANGED <<cacheDirExists, files, folder, pool, last, prev, before, saves>>

\* create: with open(cache_file, "wb") as f
RaceOpen(p) ==
    /\ procs[p].pc = "open_wb"
    /\ IF cacheDirExists
       THEN /\ files' = (get_cache_path(procs[p].name) :> Truncated) @@ files
            /\ procs' = [procs EXCEPT ![p] = [@ EXCEPT !.pc = "dump"]]
       ELSE /\ files' = files
            /\ procs' = [procs EXCEPT ![p] = Returned(@, Raised("FileNotFoundError"))]
    /\ UNCHANGED <<cacheDirExists, folder, pool, last, prev, before, saves>>

\* create: pickle.dump((chunks, embeddings), f) and the end of the with block:
\* the one write of the entry, at offset 0 of the file whatever it holds now
\* (another open may have emptied it, another write may have filled it);
\* then fetch loads again
RaceDump(p) ==
    /\ procs[p].pc = "dump"
    /\ files' = (get_cache_path(procs[p].name)
                   :> <<PickleDump(procs[p].chunks, procs[p].embeddings)>>) @@ files
    /\ saves' = Append(saves, p)
    /\ procs' = [procs EXCEPT ![p] = [@ EXCEPT !.pc = "exists", !.phase = "again"]]
    /\ UNCHANGED <<cacheDirExists, folder, pool, last, prev, before>>

-----------------------------------------------------------------------------
(* Specifications.                                                         *)

\* VectorStore() on a fresh cache directory
InitCache ==
    /\ cacheDirExists = TRUE
    /\ files = NoFiles
    /\ last = NoCall
    /\ prev = NoCall
    /\ before = NoBefore
    /\ procs = [p \in Procs |-> Idle]
    /\ saves = <<>>

\* the cache and a folder of documents: fetch_all and reset, on any cache
Init ==
    /\ InitCache
    /\ folder \in Folders
    /\ pool = NoPool

\* entries created ahead of the folder calls: for a document of the folder,
\* with chunks that are not (or no longer) what the chunker gives for it
StaleNames == {APdf, BPdf, EPdf}

StaleChunkSeqs == {<<>>, <<"c1">>}

Next ==
    \/ Clear
    \/ \E pdf_name \in StaleNames, chunks \in StaleChunkSeqs : Create(pdf_name, chunks)
    \/ FetchAll
    \/ Reset

Spec == Init /\ [][Next]_vars

\* the default of k in retrieve_top_k and of top_k in RAGChat.ask
DefaultTopK == 3

\* every call in one specification: the cache methods on the documents of the
\* folder, a RAGChat built over the folder, and questions put to it
LifeListings == {<<APdf, BPdf>>, <<AUpperPdf, APdf>>}

LifeNames == {APdf, BPdf}

InitLife ==
    /\ InitCache
    /\ folder \in {f \in Folders : f.exists /\ f.listing \in LifeListings}
    /\ pool = NoPool

NextLife ==
    \/ Clear
    \/ \E pdf_name \in LifeNames, chunks \in StaleChunkSeqs : Create(pdf_name, chunks)
    \/ \E pdf_name \in LifeNames : Load(pdf_name)
    \/ \E pdf_name \in LifeNames, chunks \in StaleChunkSeqs : Fetch(pdf_name, chunks)
    \/ NewChat
    \/ Reset
    \/ pool # NoPool /\ RetrieveTopK("q1", 1)
    \/ pool # NoPool /\ Ask("q2", DefaultTopK)

SpecLife == InitLife /\ [][NextLife]_vars

\* two processes that each called fetch for the cache file a.pkl, which is
\* missing, with chunk lists of their own
RaceNames == {APdf, AUpperPdf}

\* chunk lists of short texts
RaceChunks == {<<"c1">>, <<"c2">>, <<"c2", "c3">>}

InitRace ==
    /\ cacheDirExists = TRUE
    /\ files = NoFiles
    /\ folder = NoFolder
    /\ pool = NoPool
    /\ last = NoCall
    /\ prev = NoCall
    /\ before = NoBefore
    /\ \E n \in RaceNames, c1 \in RaceChunks, c2 \in RaceChunks :
          procs = [p \in Procs |-> IF p = "p1" THEN Called(APdf, c1) ELSE Called(n, c2)]
    /\ saves = <<>>

NextRace ==
    \E p \in Procs :
        \/ RaceExists(p)
        \/ RaceOpenRead(p)
        \/ RaceRead(p)
        \/ RaceEncode(p)
        \/ RaceOpen(p)
        \/ RaceDump(p)

SpecRace == InitRace /\ [][NextRace]_vars

\* the cache alone: create, load, fetch and clear with any name and chunks
InitCacheOnly ==
    /\ InitCache
    /\ folder = NoFolder
    /\ pool = NoPool

NextCache ==
    \/ Clear
    \/ \E args \in StoreInputs : Create(args[1], args[2])
    \/ \E pdf_name \in StoreNames : Load(pdf_name)
    \/ \E args \in StoreInputs : Fetch(args[1], args[2])

SpecCache == InitCacheOnly /\ [][NextCache]_vars

\* retrieval over a pool held by RAGChat: any non-empty pool of embedded chunks
PoolChunks == {"c1", "c2", "c4", "c5"}

Queries == {"q1", "q2"}

Pools ==
    {[chunks |-> c, embeddings |-> Encode(c)] :
        c \in SeqsUpTo(PoolChunks, MaxPool) \ {<<>>}}

InitTopK ==
    /\ InitCache
    /\ folder = NoFolder
    /\ pool \in Pools

NextTopK ==
    \/ \E query \in Queries, k \in 0..MaxK : RetrieveTopK(query, k)
    \/ \E question \in Queries, top_k \in 0..MaxK : Ask(question, top_k)

SpecTopK == InitTopK /\ [][NextTopK]_vars

-----------------------------------------------------------------------------
(* Properties of the cache: create, load, fetch, clear (SpecCache).        *)

PathOf(call) == get_cache_path(call.name)

\* the entry of the cache file p, as load returns it
EntryAt(p) == PickleLoad(files[p])

\* rows is the embedding of chunks, row i for chunk i
RowsMatch(chunks, rows) ==
    /\ Len(rows) = Len(chunks)
    /\ \A i \in 1..Len(chunks) : rows[i] = Embed(chunks[i])

\* C1: a load that directly follows a successful create of the same cache
\* file returns the chunks that were created, in their order, with embedding
\* row i the embedding of chunk i.
C1_RoundTrip ==
    (last.op = "load" /\ prev.op = "create" /\ prev.kind = "ok"
        /\ PathOf(last) = PathOf(prev))
    => /\ last.kind = "ok"
       /\ last.outChunks = prev.chunks
       /\ RowsMatch(prev.chunks, last.outEmb)

C1_Witness ==
    /\ last.op = "load" /\ prev.op = "create" /\ prev.kind = "ok"
    /\ last.name # prev.name
    /\ Len(prev.chunks) = 2 /\ prev.chunks[1] # prev.chunks[2]
    /\ last.outChunks = prev.chunks

\* C2: of two fetches in a row with the same cache file and the same fallback
\* chunks, at most one calls the embedding model; the second calls it never,
\* writes nothing, leaves the cache as it was and returns what the first returned.
C2_FetchTwice ==
    /\ [](  (last.op = "fetch" /\ prev.op = "fetch")
           => /\ prev.encodes + last.encodes <= 1
              /\ last.encodes = 0
              /\ last.written = {}
              /\ last.kind = "ok" /\ prev.kind = "ok"
              /\ last.outChunks = prev.outChunks
              /\ last.outEmb = prev.outEmb)
    /\ [][ (last'.op = "fetch" /\ prev'.op = "fetch")
           => (files' = files /\ cacheDirExists' = cacheDirExists) ]_vars

C2_Witness ==
    /\ last.op = "fetch" /\ prev.op = "fetch"
    /\ prev.encodes = 1 /\ last.encodes = 0
    /\ last.name # prev.name
    /\ Len(last.outChunks) = 2

\* C3: clear leaves an existing, empty cache directory, whether or not the
\* directory existed; a load of a cache file that is absent fails with
\* FileNotFoundError and returns no data; a cache file appears only by a save
\* of that file (so an entry cleared stays absent until it is saved again);
\* a load right after a clear fails for every file held before the clear, and
\* a create right after a clear succeeds.
C3_ClearThenLoad ==
    /\ [](last.op = "clear" => (cacheDirExists /\ DOMAIN files = {}))
    /\ [](\A d \in BOOLEAN :
            clear(World(d, IF d THEN files ELSE NoFiles)) = World(TRUE, NoFiles))
    /\ [](  (last.op = "load" /\ PathOf(last) \notin DOMAIN files)
           => (last.kind = "FileNotFoundError"
                 /\ last.outChunks = <<>> /\ last.outEmb = <<>>))
    /\ [](  (last.op = "load" /\ prev.op = "clear" /\ PathOf(last) \in prev.had)
           => last.kind = "FileNotFoundError")
    /\ [](  (last.op = "create" /\ prev.op = "clear")
           => (last.kind = "ok" /\ DOMAIN files = {PathOf(last)}))
    /\ [][ \A p \in DOMAIN files' \ DOMAIN files :
             last'.op \in {"create", "fetch"} /\ p = PathOf(last') ]_vars

C3_Witness ==
    /\ last.op = "load" /\ prev.op = "clear"
    /\ PathOf(last) \in prev.had
    /\ last.kind = "FileNotFoundError"

\* C4: fetch always returns a pair: it ends without error, afterwards the
\* cache file of the name exists and what fetch returned is what that file
\* holds; when the file was absent, fetch called the embedding model once,
\* wrote that file only, and returns the supplied chunks with their embeddings.
C4_FetchNeverMisses ==
    last.op = "fetch"
    => /\ last.kind = "ok"
       /\ PathOf(last) \in DOMAIN files
       /\ EntryAt(PathOf(last)) = [chunks |-> last.outChunks, embeddings |-> last.outEmb]
       /\ PathOf(last) \notin last.had
            => /\ last.encodes = 1
               /\ last.written = {PathOf(last)}
               /\ last.outChunks = last.chunks
               /\ RowsMatch(last.chunks, last.outEmb)
       /\ PathOf(last) \in last.had
            => (last.encodes = 0 /\ last.written = {})

C4_Witness ==
    /\ last.op = "fetch"
    /\ PathOf(last) \notin last.had
    /\ last.had # {}
    /\ Len(last.chunks) = 2 /\ last.chunks[1] # last.chunks[2]
    /\ last.outChunks = last.chunks

-----------------------------------------------------------------------------
(* Properties of the retrieval (SpecTopK).                                 *)

\* the cosine similarity of q and a is strictly higher than that of q and b,
\* from the definition sim(q, x) = (q . x) / (|q| |x|), 0 for a zero vector
SimHigher(q, a, b) ==
    LET da == q[1] * a[1] + q[2] * a[2]
        db == q[1] * b[1] + q[2] * b[2]
        na == IF a = <<0, 0>> THEN 1 ELSE a[1] * a[1] + a[2] * a[2]
        nb == IF b = <<0, 0>> THEN 1 ELSE b[1] * b[1] + b[2] * b[2]
    IN  IF da >= 0 /\ db < 0 THEN TRUE
        ELSE IF da < 0 /\ db >= 0 THEN FALSE
        ELSE IF da >= 0 THEN da * da * nb > db * db * na
        ELSE da * da * nb < db * db * na

PoolSize == Len(pool.chunks)

\* the returned positions are in order of similarity, the most similar first
MostSimilarFirst(idx, q) ==
    \A m, n \in 1..Len(idx) :
        m < n => ~SimHigher(q, pool.embeddings[idx[n]], pool.embeddings[idx[m]])

\* C5 (as claimed): retrieve_top_k with k = 0 returns the empty list, and with k
\* above the size of the pool it returns the whole pool, most similar first,
\* without an error.
C5_ClampsToPool ==
    last.op = "retrieve_top_k"
    => /\ last.k = 0 => (last.kind = "ok" /\ last.outChunks = <<>>)
       /\ last.k > PoolSize
            => /\ last.kind = "ok"
               /\ Len(last.outChunks) = PoolSize
               /\ {last.idx[n] : n \in 1..Len(last.idx)} = 1..PoolSize
               /\ MostSimilarFirst(last.idx, Embed(last.query))

\* C6: for 1 <= k <= size of the pool, retrieve_top_k returns k chunks, from k
\* different positions of the pool; no chunk left out is strictly more similar
\* to the query than a chunk returned; the chunks come most similar first.
C6_TopK ==
    (last.op = "retrieve_top_k" /\ 1 <= last.k /\ last.k <= PoolSize)
    => LET idx == last.idx
           q == Embed(last.query)
           chosen == {idx[n] : n \in 1..Len(idx)}
       IN  /\ last.kind = "ok"
           /\ Len(idx) = last.k
           /\ Len(last.outChunks) = last.k
           /\ chosen \subseteq 1..PoolSize
           /\ Cardinality(chosen) = last.k
           /\ \A n \in 1..last.k : last.outChunks[n] = pool.chunks[idx[n]]
           /\ \A left \in (1..PoolSize) \ chosen : \A kept \in chosen :
                 ~SimHigher(q, pool.embeddings[left], pool.embeddings[kept])
           /\ MostSimilarFirst(idx, q)

\* two of three chunks, returned in another order than they have in the pool,
\* one of them with a negative similarity and a zero vector left out
C6_Witness ==
    /\ last.op = "retrieve_top_k" /\ last.k = 2 /\ PoolSize = 3
    /\ last.kind = "ok"
    /\ last.idx[1] > last.idx[2]
    /\ pool.chunks = <<"c5", "c4", "c2">>
    /\ last.query = "q1"

-----------------------------------------------------------------------------
(* Properties of fetch_all and reset over a folder (Spec).                 *)

\* the names of the corpus with a case-insensitive .pdf suffix
PdfNames == {APdf, AUpperPdf, BPdf, EPdf}

HasPdfSuffix(file) == file \in PdfNames

\* the eligible documents of the folder, in enumeration order
Eligible == SelectSeq(folder.listing, HasPdfSuffix)

EligiblePaths == {get_cache_path(Eligible[i]) : i \in 1..Len(Eligible)}

\* no two eligible documents share a cache file
NoSharedKey ==
    \A i, j \in 1..Len(Eligible) :
        i # j => get_cache_path(Eligible[i]) # get_cache_path(Eligible[j])

\* the document enumerated last among those with the cache file of document i
LastSharing(i) ==
    LET same == {j \in 1..Len(Eligible) :
                   get_cache_path(Eligible[j]) = get_cache_path(Eligible[i])}
    IN  Eligible[CHOOSE j \in same : \A m \in same : m <= j]

\* the chunker gives no chunk for any eligible document (or there is none)
ChunkerGivesNothing == \A i \in 1..Len(Eligible) : DocChunks(Eligible[i]) = <<>>

\* every eligible document has an entry, and every such entry has no chunks
EntriesHoldNothing ==
    \A i \in 1..Len(Eligible) :
        /\ get_cache_path(Eligible[i]) \in DOMAIN files
        /\ EntryAt(get_cache_path(Eligible[i])).chunks = <<>>

\* C7 (as claimed): fetch_all on an existing folder raises ValueError if there
\* is no eligible document or the chunker gives no chunk for the eligible
\* documents, and returns a non-empty pool in every other case.
C7_EmptyCorpusByChunker ==
    (last.op = "fetch_all" /\ folder.exists)
    => IF ChunkerGivesNothing
       THEN last.kind = "ValueError"
       ELSE last.kind = "ok" /\ last.outChunks # <<>>

\* C7 (amended): fetch_all on an existing folder raises ValueError exactly when
\* the entries fetch returned for the eligible documents hold no chunk at all
\* (so always when there is no eligible document), and returns a non-empty
\* pool otherwise.  When no eligible document had an entry before the call and
\* no two of them share a cache file, that is exactly when the chunker gives
\* no chunk for them.
C7_EmptyCorpusByEntries ==
    (last.op = "fetch_all" /\ folder.exists)
    => /\ IF EntriesHoldNothing
          THEN last.kind = "ValueError"
          ELSE last.kind = "ok" /\ last.outChunks # <<>>
       /\ Eligible = <<>> => last.kind = "ValueError"
       /\ (last.had \cap EligiblePaths = {} /\ NoSharedKey)
            => (ChunkerGivesNothing <=> last.kind = "ValueError")

\* an entry without chunks, created earlier, makes fetch_all raise ValueError
\* although the chunker gives chunks for the document
C7_Witness ==
    /\ last.op = "fetch_all" /\ folder.exists
    /\ last.kind = "ValueError"
    /\ Eligible # <<>>
    /\ ~ChunkerGivesNothing

\* C8: a fetch_all that returns gives the entries now held for the eligible
\* documents, joined in enumeration order: chunks to chunks, embedding rows to
\* embedding rows; it (also when it raises ValueError) leaves an entry for every
\* eligible document and creates an entry for no other file.  From an empty
\* cache, a.pdf (two chunks) and b.pdf (one chunk) give a pool of three chunks.
C8_PoolIsConcatenation ==
    (last.op = "fetch_all" /\ last.kind \in {"ok", "ValueError"})
    => /\ last.kind = "ok"
            => /\ last.outChunks =
                    Concat([i \in 1..Len(Eligible) |->
                              EntryAt(get_cache_path(Eligible[i])).chunks])
               /\ last.outEmb =
                    Concat([i \in 1..Len(Eligible) |->
                              EntryAt(get_cache_path(Eligible[i])).embeddings])
       /\ DOMAIN files = last.had \cup EligiblePaths
       /\ last.written \subseteq EligiblePaths
       /\ (last.had = {} /\ folder.listing \in {<<APdf, BPdf>>, <<BPdf, APdf>>})
            => (last.kind = "ok" /\ Len(last.outChunks) = 3)

\* a.PDF (eligible by its upper-case suffix) and n.txt (not eligible) in a
\* folder, and for the scenario a.pdf and b.pdf from an empty cache
C8_Witness ==
    /\ last.op = "fetch_all" /\ last.kind = "ok"
    /\ last.had = {}
    /\ \/ folder.listing = <<APdf, BPdf>> /\ last.outChunks = <<"c1", "c2", "c3">>
       \/ folder.listing = <<NTxt, AUpperPdf>> /\ last.outChunks = <<"c2">>

\* C9 (as claimed): a fetch_all right after a reset, that ran right after a
\* fetch_all which returned, returns the same chunks in the same order,
\* whatever the cache held before and whatever the folder holds.
C9_RebuildReproducesPool ==
    (last.op = "fetch_all" /\ prev.op = "reset" /\ before.set /\ before.kind = "ok")
    => (last.kind = "ok" /\ last.outChunks = before.chunks)

\* the chunks reset followed by fetch_all gives: for every eligible document, in
\* enumeration order, what the chunker gives for the document enumerated last
\* among those with its cache file
RebuiltChunks == Concat([i \in 1..Len(Eligible) |-> DocChunks(LastSharing(i))])

\* the earlier fetch_all gave every eligible document its own current chunks
GaveOwnChunks ==
    /\ Len(before.parts) = Len(Eligible)
    /\ \A i \in 1..Len(Eligible) : before.parts[i] = DocChunks(Eligible[i])

\* C9 (amended): a fetch_all right after a reset of an existing folder returns
\* the current chunker output, for every eligible document in enumeration
\* order that of the document enumerated last among those sharing its cache
\* file (ValueError when that is empty).  It is the pool the fetch_all before
\* the reset returned whenever no two eligible documents share a cache file and
\* that fetch_all gave every eligible document its own current chunks (no
\* entry left from other content).
C9_RebuildGivesCurrentChunks ==
    (last.op = "fetch_all" /\ prev.op = "reset" /\ folder.exists)
    => /\ IF RebuiltChunks = <<>>
          THEN last.kind = "ValueError"
          ELSE last.kind = "ok" /\ last.outChunks = RebuiltChunks
       /\ (before.set /\ before.kind = "ok" /\ NoSharedKey /\ GaveOwnChunks)
            => (last.kind = "ok" /\ last.outChunks = before.chunks)

C9_Witness ==
    /\ last.op = "fetch_all" /\ prev.op = "reset"
    /\ before.set /\ before.kind = "ok" /\ NoSharedKey /\ GaveOwnChunks
    /\ prev.had # prev.written
    /\ last.outChunks = <<"c3", "c1", "c2">>
    /\ last.outChunks = before.chunks

\* C10: after a reset that returns, the cache holds an entry for the cache file
\* of every eligible document and no other entry; every entry holds the current
\* chunks, with their embeddings, of the document enumerated last among those
\* with that cache file; the embedding model was called once per eligible
\* document and load never; every entry was written by this reset, so no
\* entry from before is left.
C10_ResetRebuildsAll ==
    (last.op = "reset" /\ last.kind = "ok")
    => /\ cacheDirExists
       /\ DOMAIN files = EligiblePaths
       /\ \A i \in 1..Len(Eligible) :
             LET entry == EntryAt(get_cache_path(Eligible[i]))
             IN  /\ entry.chunks = DocChunks(LastSharing(i))
                 /\ RowsMatch(entry.chunks, entry.embeddings)
       /\ last.encodes = Len(Eligible)
       /\ last.loads = 0
       /\ last.written = DOMAIN files
       /\ \A p \in last.had \ last.written : p \notin DOMAIN files

\* a reset on a cache with an entry for a document that is not in the folder
\* and an entry of other content for one that is
C10_Witness ==
    /\ last.op = "reset" /\ last.kind = "ok"
    /\ Len(Eligible) = 2
    /\ Cardinality(last.had) = 2
    /\ Cardinality(last.had \ DOMAIN files) = 1
    /\ Cardinality(DOMAIN files \ last.had) = 1

\* the calls that read the cache or fill what is missing from it
ReadingOps == {"load", "fetch", "fetch_all", "retrieve_top_k", "ask"}

\* C11: a load, fetch, fetch_all, retrieve_top_k or ask leaves every cache file
\* that exists when it is called in place and with the content it had (only
\* clear and reset take entries away); a fetch that finds its cache file
\* succeeds, calls the embedding model not at all, writes nothing and returns
\* the chunks and embeddings of the file, whatever chunks it was given.
C11_EntriesOutlive ==
    /\ [][ last'.op \in ReadingOps
           => \A p \in DOMAIN files : p \in DOMAIN files' /\ files'[p] = files[p] ]_vars
    /\ [](  (last.op = "fetch" /\ PathOf(last) \in last.had)
           => /\ last.kind = "ok"
              /\ last.encodes = 0
              /\ last.written = {}
              /\ PathOf(last) \in DOMAIN files
              /\ last.outChunks = EntryAt(PathOf(last)).chunks
              /\ last.outEmb = EntryAt(PathOf(last)).embeddings)

\* a fetch that finds its cache file holding other chunks than the ones it is
\* given, in a cache a RAGChat was built over
C11_Witness ==
    /\ last.op = "fetch" /\ last.kind = "ok"
    /\ PathOf(last) \in last.had
    /\ last.chunks # last.outChunks
    /\ last.outChunks # <<>>
    /\ pool # NoPool

AllReturned == \A p \in Procs : procs[p].pc = "done"

\* process q found the cache file missing, computed embeddings and saved
Saved(q) == \E i \in 1..Len(saves) : saves[i] = q

\* what process q saved, as a load returns it: its chunks, and the embeddings
\* of its chunk list
SavedBy(q) == [chunks |-> procs[q].chunks, embeddings |-> Encode(procs[q].chunks)]

\* C12: when two processes have run fetch for one missing cache file side by
\* side, both have found it missing and both have computed embeddings and
\* saved, then the file holds the entry of the later of the two saves, and each
\* process has returned without error the chunks and embeddings of one of the
\* two saves.
C12_LastWriterWins ==
    (AllReturned /\ \A q \in Procs : Saved(q))
    => /\ files[get_cache_path(APdf)] # Truncated
       /\ PickleLoad(files[get_cache_path(APdf)][1]) = SavedBy(saves[Len(saves)])
       /\ \A p \in Procs :
             /\ procs[p].kind = "ok"
             /\ \E q \in Procs :
                   /\ procs[p].outChunks = SavedBy(q).chunks
                   /\ procs[p].outEmb = SavedBy(q).embeddings

\* C13: whatever create, fetch, fetch_all, clear and reset calls have run, every
\* cache file holds as many embedding rows as chunks, row i the embedding of
\* chunk i; every fetch_all that returned gave as many rows as chunks, and so
\* does the pool a RAGChat holds.
C13_CountsAgree ==
    /\ \A p \in DOMAIN files : RowsMatch(EntryAt(p).chunks, EntryAt(p).embeddings)
    /\ (last.op = "fetch_all" /\ last.kind = "ok")
          => Len(last.outChunks) = Len(last.outEmb)
    /\ Len(pool.chunks) = Len(pool.embeddings)

\* a fetch_all that returned three chunks from two cache files, one of them
\* of two chunks
C13_Witness ==
    /\ last.op = "fetch_all" /\ last.kind = "ok"
    /\ Cardinality(DOMAIN files) = 2
    /\ Len(last.outChunks) = 3
    /\ \E p \in DOMAIN files : Len(EntryAt(p).chunks) = 2
    /\ pool.chunks = last.outChunks

\* two file names that differ at most in the extension
SameStem(a, b) == SplitExtRoot(a) = SplitExtRoot(b)

Stems == {SplitExtRoot(Eligible[i]) : i \in 1..Len(Eligible)}

\* the document enumerated first, and the one enumerated last, among the
\* eligible documents that differ from document j at most in the extension
FirstSameStem(j) ==
    LET same == {i \in 1..Len(Eligible) : SameStem(Eligible[i], Eligible[j])}
    IN  Eligible[CHOOSE i \in same : \A m \in same : i <= m]

LastSameStem(j) ==
    LET same == {i \in 1..Len(Eligible) : SameStem(Eligible[i], Eligible[j])}
    IN  Eligible[CHOOSE i \in same : \A m \in same : m <= i]

\* C14: file names that differ only in the extension have one cache file.  A
\* fetch_all on an empty cache that returns has called the embedding model
\* once per stem and left one cache file per stem, and the pool holds, for
\* every eligible document, the chunks of the document enumerated first among
\* those of its stem (so twice for a.pdf and a.PDF, and the chunks of the
\* second never as its part).  After a reset that returns, the cache file of
\* a stem holds the chunks of the document enumerated last among them.
C14_KeyCollision ==
    /\ \A a \in Names, b \in Names :
          SameStem(a, b) => get_cache_path(a) = get_cache_path(b)
    /\ (last.op = "fetch_all" /\ last.kind = "ok" /\ last.had = {})
          => /\ Len(last.parts) = Len(Eligible)
             /\ \A j \in 1..Len(Eligible) :
                   last.parts[j] = DocChunks(FirstSameStem(j))
             /\ last.outChunks = Concat(last.parts)
             /\ last.encodes = Cardinality(Stems)
             /\ Cardinality(DOMAIN files) = Cardinality(Stems)
    /\ (last.op = "reset" /\ last.kind = "ok")
          => /\ \A j \in 1..Len(Eligible) :
                   /\ get_cache_path(Eligible[j]) \in DOMAIN files
                   /\ EntryAt(get_cache_path(Eligible[j])).chunks
                        = DocChunks(LastSameStem(j))
             /\ last.encodes = Len(Eligible)
             /\ Cardinality(DOMAIN files) = Cardinality(Stems)

\* a.PDF enumerated before a.pdf: the fetch_all gave the chunks of a.PDF twice,
\* and the reset that followed left the chunks of a.pdf in the one cache file
C14_Witness ==
    /\ last.op = "reset" /\ last.kind = "ok"
    /\ folder.listing = <<AUpperPdf, APdf>>
    /\ before.set /\ before.kind = "ok"
    /\ before.chunks = DocChunks(AUpperPdf) \o DocChunks(AUpperPdf)
    /\ DOMAIN files = {get_cache_path(AUpperPdf)}
    /\ EntryAt(get_cache_path(AUpperPdf)).chunks = DocChunks(APdf)
    /\ DocChunks(APdf) # DocChunks(AUpperPdf)

\* C15: when the folder does not exist, fetch_all and reset fail with the
\* FileNotFoundError of os.listdir, have written no cache file, and leave the
\* cache holding the files it held when they were called.
C15_NoFolderLeavesCache ==
    (last.op \in {"fetch_all", "reset"} /\ ~folder.exists)
    => /\ last.kind = "FileNotFoundError"
       /\ last.written = {}
       /\ DOMAIN files = last.had

====
